---- MODULE Spec2Model ----
(***************************************************************************)
(* The session coordinator of the conferencing backend: the in-memory room *)
(* registry (`rooms`), the per-room peer directory, RoomService and the    *)
(* socket handlers that drive it.  A handler that suspends at an `await`   *)
(* of an external collaborator (media engine, record store) is split at    *)
(* that await: its continuation waits in `pending` and is run later by the *)
(* event loop (RunCallback), as are the setTimeout cleanup timers.         *)
(***************************************************************************)
EXTENDS Integers, Sequences, FiniteSets, TLC

\* ------------------------------------------------------------------ bounds
MaxRooms == 2      \* createRoom calls explored (each draws a fresh uuid)
MaxJoins == 2      \* PeerState objects ever constructed (fresh joins)
MaxClock == 1      \* the latest reading of the wall clock (new Date())
MaxTimers == 2     \* cleanup timers outstanding for one room
MaxTransports == 1 \* transports the media engine creates
MaxProducers == 1  \* producers the media engine creates
MaxConsumers == 1  \* consumers the media engine creates

\* ------------------------------------------------------------ input sets
Users == {"u1", "u2"}
Sockets == {"s1", "s2"}
Codes == 1..MaxRooms

\* socket.decoded.user.id: the authenticated identity of a connection
SocketUser == [s \in Sockets |-> IF s = "s2" THEN "u2" ELSE "u1"]

\* the display name an identity gives (socket.decoded.user.name, data.userName)
UserName == [u \in Users |-> IF u = "u1" THEN "n1" ELSE "n2"]

\* An emit is recorded with its addressing: "all" for io.emit, "room" for
\* io.to(code).emit and "others" for socket.to(code).emit; `subs` tells which
\* sockets are in the socket.io room of a code (socket.join, socket.leave).

VARIABLES
    rooms,      \* the registry: code -> RoomState
    timers,     \* code -> number of cleanup timers scheduled and not yet fired
    pending,    \* continuations of handlers suspended at an await
    nextCode,   \* the next fresh meeting id
    joins,      \* number of PeerState objects constructed so far
    now,        \* the latest reading of the wall clock
    connected,  \* sockets that are still connected
    engine,     \* the number of transports, producers and consumers the media
                \* engine has been asked for (each gets a fresh id)
    last,       \* the handler step that ran last, its outcome and its emits
    subs,       \* code -> the sockets that are in the socket.io room of that code
    handles     \* the producers and consumers of the engine that carry the close
                \* listeners of PRODUCE and CREATE_CONSUMER, with what the
                \* listeners captured: peer object, socket, room code

vars == <<rooms, timers, pending, nextCode, joins, now, connected, engine, last, subs,
          handles>>

\* ---------------------------------------------------------------- helpers
Remove(seq, i) == SubSeq(seq, 1, i - 1) \o SubSeq(seq, i + 1, Len(seq))

\* position of the entry keyed userId in a peer Map, 0 when absent
IndexOf(peers, userId) ==
    IF \E i \in 1..Len(peers) : peers[i].userId = userId
    THEN CHOOSE i \in 1..Len(peers) : peers[i].userId = userId
    ELSE 0

PeerIds(room) == {room.peers[i].userId : i \in 1..Len(room.peers)}

HostCount(room) == Cardinality({i \in 1..Len(room.peers) : room.peers[i].isHost})

Ev(ev, to, code, data) == [ev |-> ev, to |-> to, code |-> code, data |-> data]

Step(op, result, events) == [op |-> op, result |-> result, events |-> events]

\* ------------------------------------------------------------ RoomService
createRoomState(meetingId, host) ==
    [code |-> meetingId, hostName |-> UserName[host], createdBy |-> host,
     status |-> "ongoing", peers |-> <<>>]

\* a plausible slip: hostName is read from the RoomState
createRoomData_StoredHost(room) ==
    [code |-> room.code, host |-> room.createdBy, status |-> room.status,
     hostName |-> room.hostName, participantCount |-> Len(room.peers)]

\* createRoomData: the projection of a RoomState that is sent to clients;
\* hostName is participants.find((p) => p.isHost)?.userName || "Unknown"
createRoomData(room) ==
    LET hosts == {i \in 1..Len(room.peers) : room.peers[i].isHost}
        first == CHOOSE i \in hosts : \A j \in hosts : i <= j
    IN  [code |-> room.code, host |-> room.createdBy, status |-> room.status,
         hostName |-> IF hosts = {} \/ room.peers[first].userName = ""
                      THEN "Unknown"
                      ELSE room.peers[first].userName,
         participantCount |-> Len(room.peers)]

getActiveRooms(rms) ==
    {createRoomData(rms[c]) : c \in {x \in DOMAIN rms : rms[x].status = "ongoing"}}

broadcastRoomList(rms) == Ev("room-list-updated", "all", 0, getActiveRooms(rms))

\* getRoom: the error it throws, "none" when it returns the room
getRoom(rms, meetingId) == IF meetingId \in DOMAIN rms THEN "none" ELSE "NotFound"

\* a plausible slip: one test, one message, for a missing and an inactive room
validateRoomForJoin_OneError(rms, meetingId) ==
    IF meetingId \notin DOMAIN rms \/ rms[meetingId].status # "ongoing"
    THEN "InvalidState"
    ELSE "none"

\* validateRoomForJoin: the error it throws, "none" when it returns the room
validateRoomForJoin(rms, meetingId) ==
    IF getRoom(rms, meetingId) # "none" THEN getRoom(rms, meetingId)
    ELSE IF rms[meetingId].status # "ongoing" THEN "InvalidState"
    ELSE "none"

\* validateUserNotInRoom: TRUE when no peer of the room has this userId
validateUserNotInRoom(room, userId) ==
    ~ \E i \in 1..Len(room.peers) : room.peers[i].userId = userId

\* a plausible slip: any member of the room passes
validateHostPermission_AnyMember(room, userId) ==
    \E i \in 1..Len(room.peers) : room.peers[i].userId = userId

\* validateHostPermission: TRUE when it does not throw
validateHostPermission(room, userId) ==
    \E i \in 1..Len(room.peers) : room.peers[i].isHost /\ room.peers[i].userId = userId

\* a plausible slip: the peer is looked up by the identity the connection
\* authenticated as instead of by the connection its entry carries
findParticipantBySocket_ByIdentity(room, socketId) ==
    IndexOf(room.peers, SocketUser[socketId])

\* findParticipantBySocket: index of the first peer on this socket, 0 if none
findParticipantBySocket(room, socketId) ==
    IF \E i \in 1..Len(room.peers) : room.peers[i].socketId = socketId
    THEN CHOOSE i \in 1..Len(room.peers) :
            /\ room.peers[i].socketId = socketId
            /\ \A j \in 1..(i - 1) : room.peers[j].socketId # socketId
    ELSE 0

\* a plausible slip: the joiner is flagged as host
JoinParticipantData_Host(userId, socketId) ==
    [userId |-> userId, userName |-> UserName[userId], socketId |-> socketId,
     isHost |-> TRUE,
     isMuted |-> FALSE, isVideoEnabled |-> TRUE]

\* the ParticipantData literal joinRoom passes to add/updateParticipant
JoinParticipantData(userId, socketId) ==
    [userId |-> userId, userName |-> UserName[userId], socketId |-> socketId,
     isHost |-> FALSE,
     isMuted |-> FALSE, isVideoEnabled |-> TRUE]

\* a PeerState object; oid is its identity as a JavaScript object
NewPeer(pd, clock, oid) ==
    [oid |-> oid, userId |-> pd.userId, userName |-> pd.userName,
     socketId |-> pd.socketId, isHost |-> pd.isHost,
     isMuted |-> FALSE, isVideoEnabled |-> TRUE, joinedAt |-> clock,
     rtpCapabilities |-> FALSE, transports |-> {}, producers |-> {}, consumers |-> {}]

\* addParticipant: peers.set(userId, fresh PeerState)
addParticipant(room, pd, clock, oid) ==
    LET i == IndexOf(room.peers, pd.userId) IN
    IF i = 0 THEN [room EXCEPT !.peers = Append(@, NewPeer(pd, clock, oid))]
    ELSE [room EXCEPT !.peers[i] = NewPeer(pd, clock, oid)]

\* a plausible slip: the entry is replaced by a fresh PeerState
updateParticipant_Replace(room, pd, clock, oid) ==
    LET i == IndexOf(room.peers, pd.userId) IN
    IF i # 0
    THEN [room EXCEPT !.peers[i] = NewPeer(pd, clock, oid)]
    ELSE [room EXCEPT !.peers = Append(@, NewPeer(pd, clock, oid))]

\* updateParticipant: overwrite four fields of the entry, or insert it
updateParticipant(room, pd, clock, oid) ==
    LET i == IndexOf(room.peers, pd.userId) IN
    IF i # 0
    THEN [room EXCEPT !.peers[i].socketId = pd.socketId,
                      !.peers[i].isHost = pd.isHost,
                      !.peers[i].isMuted = pd.isMuted,
                      !.peers[i].isVideoEnabled = pd.isVideoEnabled]
    ELSE [room EXCEPT !.peers = Append(@, NewPeer(pd, clock, oid))]

\* transferHost: the first value of the peer Map becomes host
transferHost(room) ==
    [room EXCEPT !.peers[1].isHost = TRUE, !.createdBy = room.peers[1].userId]


\* scheduleRoomCleanup: setTimeout(() => { rooms.delete; broadcastRoomList })
scheduleRoomCleanup(tms, meetingId) == [tms EXCEPT ![meetingId] = @ + 1]

\* what a service call leaves behind: the error it throws ("none" when it
\* returns, "await" when it is suspended), the registry, the timers, its emits
Res(err, rms, tms, events) ==
    [err |-> err, rooms |-> rms, timers |-> tms, events |-> events]

\* endRoom up to its await of the record store
endRoom(rms, tms, meetingId, userId) ==
    IF getRoom(rms, meetingId) # "none"
    THEN Res(getRoom(rms, meetingId), rms, tms, <<>>)
    ELSE IF ~ validateHostPermission(rms[meetingId], userId)
    THEN Res("Forbidden", rms, tms, <<>>)
    ELSE Res("await",
             [rms EXCEPT ![meetingId].status = "ended"],
             scheduleRoomCleanup(tms, meetingId),
             <<Ev("room-ended", "room", meetingId, meetingId)>>)

HostTransferred(meetingId, room) ==
    Ev("host-transferred", "room", meetingId, room.peers[1].userId)

\* handleParticipantLeave, after the leaver was removed from the room
handleParticipantLeave(rms, tms, participant, meetingId, userId) ==
    IF participant.isHost /\ Len(rms[meetingId].peers) > 0
    THEN Res("none", [rms EXCEPT ![meetingId] = transferHost(@)], tms,
             <<HostTransferred(meetingId, rms[meetingId])>>)
    ELSE IF Len(rms[meetingId].peers) = 0
    THEN endRoom(rms, tms, meetingId, userId)
    ELSE Res("none", rms, tms, <<>>)

ParticipantLeft(to, meetingId, userId) == Ev("participant-left", to, meetingId, userId)

\* leaveRoom up to its first await of an external collaborator
leaveRoom(rms, tms, meetingId, userId) ==
    IF getRoom(rms, meetingId) # "none"
    THEN Res(getRoom(rms, meetingId), rms, tms, <<>>)
    ELSE LET i == IndexOf(rms[meetingId].peers, userId) IN
    IF i = 0
    THEN Res("NotFound", rms, tms, <<>>)
    ELSE LET participant == rms[meetingId].peers[i]
             \* removeParticipant
             rms1 == [rms EXCEPT ![meetingId].peers = Remove(@, i)]
             h == handleParticipantLeave(rms1, tms, participant, meetingId, userId)
         IN  IF h.err # "none"
             THEN h
             ELSE Res("none", h.rooms, h.timers,
                      h.events \o <<ParticipantLeft("others", meetingId, userId),
                                    broadcastRoomList(h.rooms)>>)

\* joinRoom (it never awaits); clock is the reading of new Date()
joinRoom(rms, tms, clock, oid, code, userId, sock) ==
    IF validateRoomForJoin(rms, code) # "none"
    THEN Res(validateRoomForJoin(rms, code), rms, tms, <<>>)
    ELSE LET pd == JoinParticipantData(userId, sock)
             room1 == IF ~ validateUserNotInRoom(rms[code], userId)
                      THEN updateParticipant(rms[code], pd, clock, oid)
                      ELSE addParticipant(rms[code], pd, clock, oid)
             rms1 == [rms EXCEPT ![code] = room1]
             me == room1.peers[IndexOf(room1.peers, userId)]
         IN  Res("none", rms1, tms,
                 <<Ev("participant-joined", "others", code,
                      [userId |-> userId, socketId |-> sock, producers |-> me.producers]),
                   broadcastRoomList(rms1)>>)

\* a plausible slip: the room list is republished for each room as it is left
handleDisconnectedParticipant_Broadcast(rms, tms, meetingId, i) ==
    LET participant == rms[meetingId].peers[i]
        rms1 == [rms EXCEPT ![meetingId].peers = Remove(@, i)]
        left == ParticipantLeft("room", meetingId, participant.userId)
        list == broadcastRoomList(rms1)
    IN  IF participant.isHost
        THEN IF Len(rms1[meetingId].peers) > 0
             THEN Res("none", [rms1 EXCEPT ![meetingId] = transferHost(@)], tms,
                      <<HostTransferred(meetingId, rms1[meetingId]), left, list>>)
             ELSE Res("none", [rms1 EXCEPT ![meetingId].status = "ended"],
                      scheduleRoomCleanup(tms, meetingId), <<left, list>>)
        ELSE Res("none", rms1, tms, <<left, list>>)

\* handleDisconnectedParticipant for the peer at position i of the room
handleDisconnectedParticipant(rms, tms, meetingId, i) ==
    LET participant == rms[meetingId].peers[i]
        rms1 == [rms EXCEPT ![meetingId].peers = Remove(@, i)]
        left == ParticipantLeft("room", meetingId, participant.userId)
    IN  IF participant.isHost
        THEN IF Len(rms1[meetingId].peers) > 0
             THEN Res("none", [rms1 EXCEPT ![meetingId] = transferHost(@)], tms,
                      <<HostTransferred(meetingId, rms1[meetingId]), left>>)
             ELSE Res("none", [rms1 EXCEPT ![meetingId].status = "ended"],
                      scheduleRoomCleanup(tms, meetingId), <<left>>)
        ELSE Res("none", rms1, tms, <<left>>)

\* the loop of handleDisconnect over rooms.entries(), from room c on; the
\* registry is walked in the order of its codes
RECURSIVE disconnectLoop(_, _, _, _, _)
disconnectLoop(c, rms, tms, sock, events) ==
    IF c > MaxRooms
    THEN Res("none", rms, tms, events)
    ELSE IF c \in DOMAIN rms /\ findParticipantBySocket(rms[c], sock) # 0
    THEN LET h == handleDisconnectedParticipant(rms, tms, c,
                                               findParticipantBySocket(rms[c], sock))
         IN  disconnectLoop(c + 1, h.rooms, h.timers, sock, events \o h.events)
    ELSE disconnectLoop(c + 1, rms, tms, sock, events)

\* a plausible slip: the room list is republished whatever the loop found
handleDisconnect_AlwaysBroadcast(rms, tms, sock) ==
    LET r == disconnectLoop(1, rms, tms, sock, <<>>) IN
    [r EXCEPT !.events = @ \o <<broadcastRoomList(r.rooms)>>]

\* handleDisconnect: one room-list republish when some room was updated
handleDisconnect(rms, tms, sock) ==
    LET r == disconnectLoop(1, rms, tms, sock, <<>>) IN
    IF Len(r.events) > 0
    THEN [r EXCEPT !.events = @ \o <<broadcastRoomList(r.rooms)>>]
    ELSE r

\* the values a field of `updates` may carry: absent, or a boolean
Flag == {"undefined", "true", "false"}

\* a plausible slip: both fields are assigned, an absent one as false
applyParticipantUpdates_Overwrite(participant, updates) ==
    [participant EXCEPT !.isMuted = (updates.isMuted = "true"),
                        !.isVideoEnabled = (updates.isVideoEnabled = "true")]

\* applyParticipantUpdates: assign the fields of `updates` that are present
applyParticipantUpdates(participant, updates) ==
    [participant EXCEPT
        !.isMuted = IF updates.isMuted # "undefined"
                    THEN updates.isMuted = "true" ELSE @,
        !.isVideoEnabled = IF updates.isVideoEnabled # "undefined"
                           THEN updates.isVideoEnabled = "true" ELSE @]

\* updateParticipantStatus (it never awaits)
updateParticipantStatus(rms, tms, meetingId, userId, updates) ==
    IF getRoom(rms, meetingId) # "none"
    THEN Res(getRoom(rms, meetingId), rms, tms, <<>>)
    ELSE LET i == IndexOf(rms[meetingId].peers, userId) IN
    IF i = 0
    THEN Res("NotFound", rms, tms, <<>>)
    ELSE Res("none",
             [rms EXCEPT ![meetingId].peers[i] = applyParticipantUpdates(@, updates)],
             tms,
             <<Ev("participant-status-updated", "room", meetingId,
                  [userId |-> userId, updates |-> updates])>>)

\* ---------------------------------------------------------- media handlers
\* getPeer: position of the peer keyed userId in the room's Map, 0 if the room
\* or the peer is absent
getPeer(rms, roomId, userId) ==
    IF roomId \in DOMAIN rms THEN IndexOf(rms[roomId].peers, userId) ELSE 0

\* the producers recorded under the peers of a room
RoomProducers(room) == UNION {room.peers[i].producers : i \in 1..Len(room.peers)}

\* peer.transports.set(id, ..) on the PeerState object oid, which the handler
\* captured before its await; the object may no longer be in any directory
recordTransport(rms, oid, id) ==
    [c \in DOMAIN rms |->
        [rms[c] EXCEPT !.peers =
            [i \in 1..Len(rms[c].peers) |->
                IF rms[c].peers[i].oid = oid
                THEN [rms[c].peers[i] EXCEPT !.transports = @ \cup {id}]
                ELSE rms[c].peers[i]]]]

\* a plausible slip: the producer is kept per user, so it shows under the
\* user's entry of every room
recordProducer_PerUser(rms, oid, id) ==
    LET owners == UNION {{rms[c].peers[i].userId :
                            i \in {j \in 1..Len(rms[c].peers) : rms[c].peers[j].oid = oid}} :
                         c \in DOMAIN rms} IN
    [c \in DOMAIN rms |->
        [rms[c] EXCEPT !.peers =
            [i \in 1..Len(rms[c].peers) |->
                IF rms[c].peers[i].userId \in owners
                THEN [rms[c].peers[i] EXCEPT !.producers = @ \cup {id}]
                ELSE rms[c].peers[i]]]]

\* peer.producers.set(id, ..) on the captured PeerState object
recordProducer(rms, oid, id) ==
    [c \in DOMAIN rms |->
        [rms[c] EXCEPT !.peers =
            [i \in 1..Len(rms[c].peers) |->
                IF rms[c].peers[i].oid = oid
                THEN [rms[c].peers[i] EXCEPT !.producers = @ \cup {id}]
                ELSE rms[c].peers[i]]]]

\* peer.consumers.set(id, ..) on the captured PeerState object
recordConsumer(rms, oid, id, producerId) ==
    [c \in DOMAIN rms |->
        [rms[c] EXCEPT !.peers =
            [i \in 1..Len(rms[c].peers) |->
                IF rms[c].peers[i].oid = oid
                THEN [rms[c].peers[i] EXCEPT
                        !.consumers = @ \cup {[id |-> id, producerId |-> producerId]}]
                ELSE rms[c].peers[i]]]]

\* a plausible slip: the listener notifies the room and keeps the entry
deleteProducer_NotifyOnly(rms, oid, id) == rms

\* peer.producers.delete(id) on the PeerState object the listener captured
deleteProducer(rms, oid, id) ==
    [c \in DOMAIN rms |->
        [rms[c] EXCEPT !.peers =
            [i \in 1..Len(rms[c].peers) |->
                IF rms[c].peers[i].oid = oid
                THEN [rms[c].peers[i] EXCEPT !.producers = @ \ {id}]
                ELSE rms[c].peers[i]]]]

\* peer.consumers.delete(id) on the PeerState object the listener captured
deleteConsumer(rms, oid, id) ==
    [c \in DOMAIN rms |->
        [rms[c] EXCEPT !.peers =
            [i \in 1..Len(rms[c].peers) |->
                IF rms[c].peers[i].oid = oid
                THEN [rms[c].peers[i] EXCEPT !.consumers = {k \in @ : k.id # id}]
                ELSE rms[c].peers[i]]]]

\* a plausible slip: the transport is looked up among all the peers of the room
transportError_AnyPeer(rms, code, userId, transportId) ==
    LET i == getPeer(rms, code, userId) IN
    IF i = 0 THEN "NotFound"
    ELSE IF \A j \in 1..Len(rms[code].peers) :
               transportId \notin rms[code].peers[j].transports
    THEN "NotFound"
    ELSE "none"

\* the lookups of CONNECT_TRANSPORT and PRODUCE: the error the handler replies
\* with before it calls the engine, "none" when it goes on
transportError(rms, code, userId, transportId) ==
    LET i == getPeer(rms, code, userId) IN
    IF i = 0 THEN "NotFound"
    ELSE IF transportId \notin rms[code].peers[i].transports THEN "NotFound"
    ELSE "none"

\* the lookups of RESUME_CONSUMER
consumerError(rms, code, userId, consumerId) ==
    LET i == getPeer(rms, code, userId) IN
    IF i = 0 THEN "NotFound"
    ELSE IF consumerId \notin {k.id : k \in rms[code].peers[i].consumers}
    THEN "NotFound"
    ELSE "none"

\* a plausible slip: the capability descriptor is not asked for
createConsumerError_NoCapabilities(rms, code, userId, producerId, transportId, canConsume) ==
    LET i == getPeer(rms, code, userId) IN
    IF i = 0 THEN "NotFound"
    ELSE IF \/ transportId \notin rms[code].peers[i].transports
            \/ producerId \notin RoomProducers(rms[code])
    THEN "NotFound"
    ELSE IF ~ canConsume THEN "Unsupported"
    ELSE "none"

\* the lookups and tests of CREATE_CONSUMER, in the handler's order;
\* canConsume is the answer of router.canConsume
createConsumerError(rms, code, userId, producerId, transportId, canConsume) ==
    LET i == getPeer(rms, code, userId) IN
    IF i = 0 THEN "NotFound"
    ELSE IF ~ rms[code].peers[i].rtpCapabilities THEN "InvalidState"
    ELSE IF \/ transportId \notin rms[code].peers[i].transports
            \/ producerId \notin RoomProducers(rms[code])
    THEN "NotFound"
    ELSE IF ~ canConsume THEN "Unsupported"
    ELSE "none"

\* ---------------------------------------------------------------- actions
\* a handler suspended at an await: the peer object it holds (oid), the id the
\* engine will give the new handle (id) and the producer a consumer reads (ref)
Suspended(op, sock, code, user, oid, id, ref) ==
    [op |-> op, sock |-> sock, code |-> code, user |-> user,
     oid |-> oid, id |-> id, ref |-> ref]

\* the callbacks the event loop may run next: continuations whose awaited
\* promise can settle, and cleanup timers that can fire
Callbacks ==
    pending \cup {Suspended("cleanup", "none", c, "none", 0, 0, 0) :
                    c \in {x \in Codes : timers[x] > 0}}

Init ==
    /\ rooms = [c \in {} |-> 0]
    /\ timers = [c \in Codes |-> 0]
    /\ pending = {}
    /\ nextCode = 1
    /\ joins = 0
    /\ now = 0
    /\ connected = Sockets
    /\ engine = [transports |-> 0, producers |-> 0, consumers |-> 0]
    /\ last = Step("init", "none", <<>>)
    /\ subs = [c \in Codes |-> {}]
    /\ handles = {}

\* a plausible slip: the room is stored before the router is awaited
CreateRoom_StoreFirst(s, routerOk) ==
    /\ s \in connected
    /\ nextCode <= MaxRooms
    /\ nextCode' = nextCode + 1
    /\ rooms' = (nextCode :> createRoomState(nextCode, SocketUser[s])) @@ rooms
    /\ IF routerOk
       THEN /\ pending' = pending \cup
                   {Suspended("createRoom", s, nextCode, SocketUser[s], 0, 0, 0)}
            /\ last' = Step("createRoom", "await", <<>>)
       ELSE /\ last' = Step("createRoom", "Upstream", <<>>)
            /\ UNCHANGED pending
    /\ UNCHANGED <<timers, joins, now, connected, subs, engine, handles>>

\* ROOM.CREATE handler and createRoom up to `await persistRoomToDatabase()`.
\* Nothing is written before createRouter() settles, so the handler is taken
\* from that point: routerOk tells whether the media engine gave a router.
CreateRoom(s, routerOk) ==
    /\ s \in connected
    /\ nextCode <= MaxRooms
    /\ nextCode' = nextCode + 1
    /\ IF routerOk
       THEN /\ rooms' = (nextCode :> createRoomState(nextCode, SocketUser[s])) @@ rooms
            /\ pending' = pending \cup
                   {Suspended("createRoom", s, nextCode, SocketUser[s], 0, 0, 0)}
            /\ last' = Step("createRoom", "await", <<>>)
       ELSE /\ last' = Step("createRoom", "Upstream", <<>>)
            /\ UNCHANGED <<rooms, pending>>
    /\ UNCHANGED <<timers, joins, now, connected, subs, engine, handles>>

\* a plausible slip: the loop over the peers stops after the first one
JoinReply_FirstPeer(room) ==
    {[producerId |-> p, peerId |-> room.peers[i].userId,
      socketId |-> room.peers[i].socketId] :
        <<i, p>> \in {x \in (1..Len(room.peers)) \X (1..MaxProducers) :
                         x[1] = 1 /\ x[2] \in room.peers[x[1]].producers}}

\* the `producers` array of the JOIN reply: one entry for each producer of
\* each peer of the room
JoinReply(room) ==
    {[producerId |-> p, peerId |-> room.peers[i].userId,
      socketId |-> room.peers[i].socketId] :
        <<i, p>> \in {x \in (1..Len(room.peers)) \X (1..MaxProducers) :
                         x[2] \in room.peers[x[1]].producers}}

\* ROOM.JOIN handler and joinRoom; clock is what new Date() returns
JoinRoom(s, code, userId, clock) ==
    /\ s \in connected
    /\ clock >= now
    /\ LET fresh == code \in DOMAIN rooms /\ rooms[code].status = "ongoing"
                    /\ validateUserNotInRoom(rooms[code], userId)
           r == joinRoom(rooms, timers, clock, joins + 1, code, userId, s)
       IN  /\ fresh => joins < MaxJoins
           /\ joins' = IF fresh THEN joins + 1 ELSE joins
           /\ now' = IF r.err = "none" THEN clock ELSE now
           /\ r.err # "none" => clock = now
           /\ rooms' = r.rooms
           /\ last' = IF r.err = "none"
                      THEN Step("joinRoom", "ok",
                                Append(r.events,
                                       Ev("callback", "caller", code,
                                          [producers |-> JoinReply(r.rooms[code])])))
                      ELSE Step("joinRoom", r.err, r.events)
    /\ subs' = IF joinRoom(rooms, timers, clock, joins + 1, code, userId, s).err = "none"
               THEN [subs EXCEPT ![code] = @ \cup {s}]   \* socket.join(data.code)
               ELSE subs
    /\ UNCHANGED <<timers, pending, nextCode, connected, engine, handles>>

\* ROOM.LEAVE handler and leaveRoom
LeaveRoom(s, code, userId) ==
    /\ s \in connected
    /\ timers[code] < MaxTimers
    /\ LET r == leaveRoom(rooms, timers, code, userId) IN
       /\ rooms' = r.rooms
       /\ timers' = r.timers
       /\ pending' = IF r.err = "await"
                     THEN pending \cup {Suspended("leaveRoom", s, code, userId, 0, 0, 0)}
                     ELSE pending
       /\ last' = Step("leaveRoom", IF r.err = "none" THEN "ok" ELSE r.err, r.events)
    /\ subs' = IF code \in DOMAIN rooms /\ IndexOf(rooms[code].peers, userId) # 0
               THEN [subs EXCEPT ![code] = @ \ {s}]      \* removeParticipant: socket.leave
               ELSE subs
    /\ UNCHANGED <<nextCode, joins, now, connected, engine, handles>>

\* ROOM.END handler and endRoom up to `await updateRoomInDatabase()`
EndRoom(s, code, userId) ==
    /\ s \in connected
    /\ timers[code] < MaxTimers
    /\ LET r == endRoom(rooms, timers, code, userId) IN
       /\ rooms' = r.rooms
       /\ timers' = r.timers
       /\ pending' = IF r.err = "await"
                     THEN pending \cup {Suspended("endRoom", s, code, userId, 0, 0, 0)}
                     ELSE pending
       /\ last' = Step("endRoom", r.err, r.events)
    /\ UNCHANGED <<nextCode, joins, now, connected, subs, engine, handles>>

\* ROOM.UPDATE_PARTICIPANT_STATUS handler and updateParticipantStatus
UpdateParticipantStatus(s, code, userId, updates) ==
    /\ s \in connected
    /\ LET r == updateParticipantStatus(rooms, timers, code, userId, updates) IN
       /\ rooms' = r.rooms
       /\ last' = Step("updateParticipantStatus",
                       IF r.err = "none" THEN "ok" ELSE r.err, r.events)
    /\ UNCHANGED <<timers, pending, nextCode, joins, now, connected, subs, engine, handles>>

\* SYSTEM.DISCONNECT handler: the socket is lost, handleDisconnect runs
HandleDisconnect(s) ==
    /\ s \in connected
    /\ \A c \in Codes : timers[c] < MaxTimers
    /\ connected' = connected \ {s}
    /\ LET r == handleDisconnect(rooms, timers, s) IN
       /\ rooms' = r.rooms
       /\ timers' = r.timers
       /\ last' = Step("disconnect", "ok", r.events)
    /\ subs' = [c \in Codes |-> subs[c] \ {s}]         \* a lost socket is in no room
    /\ UNCHANGED <<pending, nextCode, joins, now, engine, handles>>

\* MEDIA.SET_RTP_CAPABILITIES handler
SetRtpCapabilities(s, code, userId) ==
    /\ s \in connected
    /\ LET i == getPeer(rooms, code, userId) IN
       IF i = 0
       THEN /\ last' = Step("setRtpCapabilities", "NotFound", <<>>)
            /\ UNCHANGED rooms
       ELSE /\ rooms' = [rooms EXCEPT ![code].peers[i].rtpCapabilities = TRUE]
            /\ last' = Step("setRtpCapabilities", "ok", <<>>)
    /\ UNCHANGED <<timers, pending, nextCode, joins, now, connected, subs, engine, handles>>

\* MEDIA.CREATE_WEBRTC_TRANSPORT handler up to `await createWebRtcTransport()`
CreateTransport(s, roomId) ==
    /\ s \in connected
    /\ LET i == getPeer(rooms, roomId, SocketUser[s]) IN
       IF i = 0
       THEN /\ last' = Step("createTransport", "NotFound", <<>>)
            /\ UNCHANGED <<pending, engine>>
       ELSE /\ engine.transports < MaxTransports
            /\ engine' = [engine EXCEPT !.transports = @ + 1]
            /\ pending' = pending \cup
                   {Suspended("createTransport", s, roomId, SocketUser[s],
                              rooms[roomId].peers[i].oid, engine.transports + 1, 0)}
            /\ last' = Step("createTransport", "await", <<>>)
    /\ UNCHANGED <<rooms, timers, nextCode, joins, now, connected, subs, handles>>

\* MEDIA.PRODUCE handler up to `await transport.produce()`
Produce(s, code, transportId) ==
    /\ s \in connected
    /\ LET i == getPeer(rooms, code, SocketUser[s]) IN
       IF transportError(rooms, code, SocketUser[s], transportId) # "none"
       THEN /\ last' = Step("produce",
                            transportError(rooms, code, SocketUser[s], transportId), <<>>)
            /\ UNCHANGED <<pending, engine>>
       ELSE /\ engine.producers < MaxProducers
            /\ engine' = [engine EXCEPT !.producers = @ + 1]
            /\ pending' = pending \cup
                   {Suspended("produce", s, code, SocketUser[s],
                              rooms[code].peers[i].oid, engine.producers + 1, 0)}
            /\ last' = Step("produce", "await", <<>>)
    /\ UNCHANGED <<rooms, timers, nextCode, joins, now, connected, subs, handles>>

\* MEDIA.CREATE_CONSUMER handler up to `await transport.consume()`;
\* canConsume is the answer of router.canConsume
CreateConsumer(s, code, producerId, transportId, canConsume) ==
    /\ s \in connected
    /\ LET i == getPeer(rooms, code, SocketUser[s])
           err == createConsumerError(rooms, code, SocketUser[s], producerId,
                                      transportId, canConsume)
       IN
       IF err # "none"
       THEN /\ last' = Step("createConsumer", err, <<>>)
            /\ UNCHANGED <<pending, engine>>
       ELSE /\ engine.consumers < MaxConsumers
            /\ engine' = [engine EXCEPT !.consumers = @ + 1]
            /\ pending' = pending \cup
                   {Suspended("createConsumer", s, code, SocketUser[s],
                              rooms[code].peers[i].oid, engine.consumers + 1, producerId)}
            /\ last' = Step("createConsumer", "await", <<>>)
    /\ UNCHANGED <<rooms, timers, nextCode, joins, now, connected, subs, handles>>

\* a plausible slip: the store's error is rethrown instead of logged
persistRoomToDatabase_Rethrow(ok) == IF ok THEN "none" ELSE "Upstream"

\* persistRoomToDatabase: the error it throws when dbRoom.save() succeeded
\* (ok) or threw; its catch logs the error and returns
persistRoomToDatabase(ok) == "none"

\* updateRoomInDatabase: the error it throws when Room.findOneAndUpdate()
\* succeeded (ok) or threw; its catch logs the error and returns
updateRoomInDatabase(ok) == "none"

\* MEDIA.CONNECT_TRANSPORT handler; after `await transport.connect()` it only
\* replies, so it is taken whole: ok tells whether the engine call succeeded
ConnectTransport(s, code, transportId, ok) ==
    /\ s \in connected
    /\ last' = Step("connectTransport",
                    IF transportError(rooms, code, SocketUser[s], transportId) # "none"
                    THEN transportError(rooms, code, SocketUser[s], transportId)
                    ELSE IF ok THEN "ok" ELSE "Upstream",
                    <<>>)
    /\ UNCHANGED <<rooms, timers, pending, nextCode, joins, now, connected, subs, engine, handles>>

\* MEDIA.RESUME_CONSUMER handler; after `await consumer.resume()` it only
\* replies, so it is taken whole: ok tells whether the engine call succeeded
ResumeConsumer(s, code, consumerId, ok) ==
    /\ s \in connected
    /\ last' = Step("resumeConsumer",
                    IF consumerError(rooms, code, SocketUser[s], consumerId) # "none"
                    THEN consumerError(rooms, code, SocketUser[s], consumerId)
                    ELSE IF ok THEN "ok" ELSE "Upstream",
                    <<>>)
    /\ UNCHANGED <<rooms, timers, pending, nextCode, joins, now, connected, subs, engine, handles>>

\* what the close listeners registered by the resumed handler t captured
Listener(t) ==
    [type |-> t.op, id |-> t.id, oid |-> t.oid, sock |-> t.sock, code |-> t.code,
     ref |-> t.ref]

\* the event loop runs callback t; ok tells whether the external call the
\* handler awaited (media engine, record store) succeeded
RunCallback(t, ok) ==
    /\ t \in Callbacks
    /\ UNCHANGED <<nextCode, joins, now, connected, subs, engine>>
    /\ handles' = IF ok /\ t.op \in {"produce", "createConsumer"}
                  THEN handles \cup {Listener(t)}   \* producer.on(..), consumer.on(..)
                  ELSE handles
    /\ IF t.op = "cleanup"
       THEN \* the setTimeout callback of scheduleRoomCleanup
            LET rms1 == [c \in DOMAIN rooms \ {t.code} |-> rooms[c]] IN
            /\ rooms' = rms1
            /\ timers' = [timers EXCEPT ![t.code] = @ - 1]
            /\ pending' = pending
            /\ last' = Step("cleanup", "ok", <<broadcastRoomList(rms1)>>)
       ELSE IF t.op = "createRoom"
       THEN \* persistRoomToDatabase() settled
            /\ pending' = pending \ {t}
            /\ last' = IF persistRoomToDatabase(ok) # "none"
                       THEN Step("createRoom", persistRoomToDatabase(ok), <<>>)
                       ELSE IF t.code \in DOMAIN rooms
                       THEN Step("createRoom", "ok",
                                 <<Ev("room-created", "all", t.code,
                                      createRoomData(rooms[t.code])),
                                   broadcastRoomList(rooms)>>)
                       ELSE Step("createRoom", "Upstream", <<>>)
            /\ UNCHANGED <<rooms, timers>>
       ELSE IF t.op = "endRoom"
       THEN \* updateRoomInDatabase() settled
            /\ pending' = pending \ {t}
            /\ last' = IF updateRoomInDatabase(ok) # "none"
                       THEN Step("endRoom", updateRoomInDatabase(ok), <<>>)
                       ELSE Step("endRoom", "ok", <<broadcastRoomList(rooms)>>)
            /\ UNCHANGED <<rooms, timers>>
       ELSE IF t.op = "leaveRoom"
       THEN \* leaveRoom resumes after the endRoom it awaited
            /\ pending' = pending \ {t}
            /\ last' = Step("leaveRoom", "ok",
                            <<broadcastRoomList(rooms),
                              ParticipantLeft("others", t.code, t.user),
                              broadcastRoomList(rooms)>>)
            /\ UNCHANGED <<rooms, timers>>
       ELSE IF ~ ok
       THEN \* the media engine call threw
            /\ pending' = pending \ {t}
            /\ last' = Step(t.op, "Upstream", <<>>)
            /\ UNCHANGED <<rooms, timers>>
       ELSE IF t.op = "createTransport"
       THEN /\ pending' = pending \ {t}
            /\ rooms' = recordTransport(rooms, t.oid, t.id)
            /\ last' = Step("createTransport", "ok", <<>>)
            /\ UNCHANGED timers
       ELSE IF t.op = "produce"
       THEN /\ pending' = pending \ {t}
            /\ rooms' = recordProducer(rooms, t.oid, t.id)
            /\ last' = Step("produce", "ok",
                            <<Ev("new-producer", "others", t.code,
                                 [producerId |-> t.id, peerId |-> t.user])>>)
            /\ UNCHANGED timers
       ELSE \* createConsumer
            /\ pending' = pending \ {t}
            /\ rooms' = recordConsumer(rooms, t.oid, t.id, t.ref)
            /\ last' = Step("createConsumer", "ok", <<>>)
            /\ UNCHANGED timers

ProducerClosedEv(code, producerId) == Ev("producer-closed", "others", code, producerId)

\* the engine closes producer h (its transport closed, or it was closed): the
\* "transportclose" or the "@close" listener of PRODUCE runs; both do the same
ProducerClose(h) ==
    /\ h \in handles /\ h.type = "produce"
    /\ handles' = handles \ {h}
    /\ rooms' = deleteProducer(rooms, h.oid, h.id)
    /\ last' = Step("producerClose", "ok", <<ProducerClosedEv(h.code, h.id)>>)
    /\ UNCHANGED <<timers, pending, nextCode, joins, now, connected, subs, engine>>

\* the transport of consumer h closes: the "transportclose" listener of
\* CREATE_CONSUMER runs
ConsumerTransportClose(h) ==
    /\ h \in handles /\ h.type = "createConsumer"
    /\ handles' = handles \ {h}
    /\ rooms' = deleteConsumer(rooms, h.oid, h.id)
    /\ last' = Step("consumerTransportClose", "ok", <<>>)
    /\ UNCHANGED <<timers, pending, nextCode, joins, now, connected, subs, engine>>

\* the producer that consumer h reads has closed: the "producerclose"
\* listener of CREATE_CONSUMER runs
ConsumerProducerClose(h) ==
    /\ h \in handles /\ h.type = "createConsumer"
    /\ \A g \in handles : ~ (g.type = "produce" /\ g.id = h.ref)
    /\ handles' = handles \ {h}
    /\ rooms' = deleteConsumer(rooms, h.oid, h.id)
    /\ last' = Step("consumerProducerClose", "ok", <<ProducerClosedEv(h.code, h.ref)>>)
    /\ UNCHANGED <<timers, pending, nextCode, joins, now, connected, subs, engine>>

\* the room handlers, the disconnect handler and the event loop
Next ==
    \/ \E s \in Sockets, routerOk \in BOOLEAN : CreateRoom(s, routerOk)
    \/ \E s \in Sockets, c \in Codes, u \in Users, clock \in 0..MaxClock :
           JoinRoom(s, c, u, clock)
    \/ \E s \in Sockets, c \in Codes, u \in Users : LeaveRoom(s, c, u)
    \/ \E s \in Sockets, c \in Codes, u \in Users : EndRoom(s, c, u)
    \/ \E s \in Sockets : HandleDisconnect(s)
    \/ \E t \in Callbacks, ok \in BOOLEAN : RunCallback(t, ok)

Spec == Init /\ [][Next]_vars

\* room and media handlers together, for MediaRooms rooms; the joins of a
\* behaviour all read the same value of the clock
MediaRooms == 1
MediaCodes == 1..MediaRooms

NextMedia ==
    \/ \E s \in Sockets, routerOk \in BOOLEAN :
           nextCode <= MediaRooms /\ CreateRoom(s, routerOk)
    \/ \E s \in Sockets, c \in MediaCodes, u \in Users : JoinRoom(s, c, u, now)
    \/ \E s \in Sockets, c \in MediaCodes, u \in Users : LeaveRoom(s, c, u)
    \/ \E s \in Sockets : HandleDisconnect(s)
    \/ \E t \in Callbacks, ok \in BOOLEAN : RunCallback(t, ok)
    \/ \E s \in Sockets, c \in MediaCodes, u \in Users : SetRtpCapabilities(s, c, u)
    \/ \E s \in Sockets, c \in MediaCodes : CreateTransport(s, c)
    \/ \E s \in Sockets, c \in MediaCodes, t \in 1..MaxTransports : Produce(s, c, t)
    \/ \E s \in Sockets, c \in MediaCodes, p \in 1..MaxProducers, t \in 1..MaxTransports,
          canConsume \in BOOLEAN : CreateConsumer(s, c, p, t, canConsume)

SpecMedia == Init /\ [][NextMedia]_vars

\* the media handlers and the close events of the engine, for MediaRooms rooms
NextEngine ==
    \/ NextMedia
    \/ \E s \in Sockets, c \in MediaCodes, t \in 1..MaxTransports, ok \in BOOLEAN :
           ConnectTransport(s, c, t, ok)
    \/ \E s \in Sockets, c \in MediaCodes, k \in 1..MaxConsumers, ok \in BOOLEAN :
           ResumeConsumer(s, c, k, ok)
    \/ \E h \in handles : ProducerClose(h)
    \/ \E h \in handles : ConsumerTransportClose(h)
    \/ \E h \in handles : ConsumerProducerClose(h)

SpecEngine == Init /\ [][NextEngine]_vars

\* room handlers and participant status updates together, for MediaRooms
\* rooms; the joins of a behaviour all read the same value of the clock
NextStatus ==
    \/ \E s \in Sockets, routerOk \in BOOLEAN :
           nextCode <= MediaRooms /\ CreateRoom(s, routerOk)
    \/ \E s \in Sockets, c \in MediaCodes, u \in Users : JoinRoom(s, c, u, now)
    \/ \E s \in Sockets, c \in MediaCodes, u \in Users : LeaveRoom(s, c, u)
    \/ \E s \in Sockets : HandleDisconnect(s)
    \/ \E t \in Callbacks, ok \in BOOLEAN : RunCallback(t, ok)
    \/ \E s \in Sockets, c \in MediaCodes, u \in Users, m \in Flag, v \in Flag :
           UpdateParticipantStatus(s, c, u, [isMuted |-> m, isVideoEnabled |-> v])

SpecStatus == Init /\ [][NextStatus]_vars

\* ----------------------------------------------------------------- claims
Emitted(step, ev) == \E k \in 1..Len(step.events) : step.events[k].ev = ev

\* the peer of the room keyed userId carries the host flag
HasHostFlag(room, userId) ==
    \E i \in 1..Len(room.peers) : room.peers[i].userId = userId /\ room.peers[i].isHost

\* C1: when createRoom has returned successfully for requester H, the new room
\* is in the registry with status ongoing and H is one of its peers, flagged
\* as host.
C1_CreatorAdmittedAsHost ==
    (last.op = "createRoom" /\ last.result = "ok") =>
        LET created == last.events[1].data IN
        /\ created.code \in DOMAIN rooms
        /\ rooms[created.code].status = "ongoing"
        /\ HasHostFlag(rooms[created.code], created.host)

\* C2: every room of the registry has at most one peer with isHost = TRUE.
C2_AtMostOneHost == \A c \in DOMAIN rooms : HostCount(rooms[c]) <= 1

C2_Witness ==
    /\ last.op = "joinRoom" /\ last.result = "ok"
    /\ \E c \in DOMAIN rooms : Len(rooms[c].peers) >= 2

\* C3: when no handler is suspended, every ongoing room that has a peer has
\* exactly one peer flagged as host.
C3_OngoingRoomHasHost ==
    pending = {} =>
        \A c \in DOMAIN rooms :
            (rooms[c].status = "ongoing" /\ Len(rooms[c].peers) >= 1)
                => HostCount(rooms[c]) = 1

\* C4: with no handler suspended, a leaveRoom by the only peer of an ongoing
\* room sets the room's status to ended and schedules a cleanup timer for it.
C4_LastLeaveEndsRoom ==
    [][\A s \in Sockets, c \in Codes, u \in Users :
          (/\ pending = {}
           /\ c \in DOMAIN rooms
           /\ rooms[c].status = "ongoing"
           /\ Len(rooms[c].peers) = 1
           /\ rooms[c].peers[1].userId = u
           /\ LeaveRoom(s, c, u))
          => (/\ c \in DOMAIN rooms'
              /\ rooms'[c].status = "ended"
              /\ timers'[c] = timers[c] + 1)]_vars

\* the host of a room as its clients are told: createRoomData's `host`
CurrentHost(room) == createRoomData(room).host

\* after the step, the room has exactly one host, it is a peer that joined
\* earliest, createdBy names it and a host-transferred emit names it
TransferredToEarliest(room, step) ==
    /\ HostCount(room) = 1
    /\ \E i \in 1..Len(room.peers) :
          /\ room.peers[i].isHost
          /\ \A j \in 1..Len(room.peers) : room.peers[i].joinedAt <= room.peers[j].joinedAt
          /\ room.createdBy = room.peers[i].userId
          /\ \E k \in 1..Len(step.events) :
                /\ step.events[k].ev = "host-transferred"
                /\ step.events[k].data = room.peers[i].userId

\* C5: when, with no handler suspended, the host of a room leaves it or loses
\* its connection and a peer remains, exactly one remaining peer becomes host, one that joined earliest;
\* createdBy is set to it and host-transferred is emitted naming it.
C5_HostDepartureTransfers ==
    [][\A s \in Sockets, c \in Codes, u \in Users :
          (/\ pending = {}
           /\ c \in DOMAIN rooms
           /\ Len(rooms[c].peers) >= 2
           /\ CurrentHost(rooms[c]) = u
           /\ \/ (u \in PeerIds(rooms[c]) /\ LeaveRoom(s, c, u))
              \/ /\ findParticipantBySocket(rooms[c], s) # 0
                 /\ rooms[c].peers[findParticipantBySocket(rooms[c], s)].userId = u
                 /\ HandleDisconnect(s))
          => (c \in DOMAIN rooms' /\ TransferredToEarliest(rooms'[c], last'))]_vars

\* C6: endRoom asked by an identity that is not flagged host in the room is
\* refused as Forbidden: registry, timers and suspended handlers stay as they
\* were and nothing is emitted.
C6_NonHostEndRefused ==
    [][\A s \in Sockets, c \in Codes, u \in Users :
          (/\ c \in DOMAIN rooms
           /\ ~ HasHostFlag(rooms[c], u)
           /\ EndRoom(s, c, u))
          => (/\ last'.result = "Forbidden"
              /\ last'.events = <<>>
              /\ rooms' = rooms
              /\ timers' = timers
              /\ pending' = pending)]_vars

C6_Witness ==
    /\ last.op = "endRoom" /\ last.result = "Forbidden"
    /\ \E c \in DOMAIN rooms : rooms[c].status = "ongoing" /\ Len(rooms[c].peers) >= 2

\* C7: with no handler suspended, endRoom asked by the room's host, who is a
\* peer of the room, is carried out: the status becomes
\* ended, room-ended is emitted and a cleanup timer is scheduled.
C7_HostEndSucceeds ==
    [][\A s \in Sockets, c \in Codes, u \in Users :
          (/\ pending = {}
           /\ c \in DOMAIN rooms
           /\ rooms[c].status = "ongoing"
           /\ CurrentHost(rooms[c]) = u
           /\ u \in PeerIds(rooms[c])
           /\ EndRoom(s, c, u))
          => (/\ c \in DOMAIN rooms'
              /\ rooms'[c].status = "ended"
              /\ Emitted(last', "room-ended")
              /\ timers'[c] = timers[c] + 1)]_vars

\* C8: joinRoom by an identity already in the room keeps the directory as it
\* was but for that entry's socketId, isMuted and isVideoEnabled: same number
\* of peers, same other entries, same transports, producers and consumers.
C8_RejoinReattaches ==
    [][\A s \in Sockets, c \in Codes, u \in Users, k \in 0..MaxClock :
          (/\ c \in DOMAIN rooms
           /\ rooms[c].status = "ongoing"
           /\ u \in PeerIds(rooms[c])
           /\ JoinRoom(s, c, u, k))
          => LET i == IndexOf(rooms[c].peers, u)
                 old == rooms[c].peers
                 new == rooms'[c].peers
             IN  /\ last'.result = "ok"
                 /\ Len(new) = Len(old)
                 /\ \A j \in 1..Len(old) : j # i => new[j] = old[j]
                 /\ new[i].transports = old[i].transports
                 /\ new[i].producers = old[i].producers
                 /\ new[i].consumers = old[i].consumers
                 /\ new[i] = [old[i] EXCEPT !.socketId = s,
                                            !.isMuted = new[i].isMuted,
                                            !.isVideoEnabled = new[i].isVideoEnabled]
                 /\ \A d \in DOMAIN rooms \ {c} : rooms'[d] = rooms[d]]_vars

\* a join has just succeeded for a peer that holds media handles and is now
\* attached to another socket than the one it has a transport request from
C8_Witness ==
    /\ last.op = "joinRoom" /\ last.result = "ok"
    /\ \E c \in DOMAIN rooms : \E i \in 1..Len(rooms[c].peers) :
          LET p == rooms[c].peers[i] IN
          /\ p.userId = last.events[1].data.userId
          /\ p.socketId = last.events[1].data.socketId
          /\ p.socketId # "s1" /\ SocketUser["s1"] = p.userId
          /\ p.transports # {} /\ p.producers # {} /\ p.consumers # {}

\* C9: joinRoom with a code the registry does not hold fails as NotFound, and
\* joinRoom on a room that is not ongoing fails as InvalidState; either way
\* registry, timers and suspended handlers stay as they were and nothing is
\* emitted.
C9_JoinRefusals ==
    [][\A s \in Sockets, c \in Codes, u \in Users, k \in 0..MaxClock :
          (/\ (c \notin DOMAIN rooms \/ rooms[c].status # "ongoing")
           /\ JoinRoom(s, c, u, k))
          => (/\ last'.result = IF c \notin DOMAIN rooms THEN "NotFound" ELSE "InvalidState"
              /\ last'.events = <<>>
              /\ rooms' = rooms
              /\ timers' = timers
              /\ pending' = pending)]_vars

C9_Witness ==
    /\ last.op = "joinRoom" /\ last.result = "NotFound"
    /\ \E c \in DOMAIN rooms : Len(rooms[c].peers) >= 1

\* C10: handleDisconnect for a socket no peer is attached to changes neither
\* registry nor timers nor suspended handlers, raises nothing and emits nothing.
C10_StrayDisconnectIsNoOp ==
    [][\A s \in Sockets :
          (/\ \A c \in DOMAIN rooms : findParticipantBySocket(rooms[c], s) = 0
           /\ HandleDisconnect(s))
          => (/\ last'.result = "ok"
              /\ last'.events = <<>>
              /\ rooms' = rooms
              /\ timers' = timers
              /\ pending' = pending)]_vars

\* a socket was lost that no peer was attached to, while a room has peers and
\* the lost socket's own identity is among them (it re-attached elsewhere)
C10_Witness ==
    /\ last.op = "disconnect" /\ last.result = "ok" /\ last.events = <<>>
    /\ \E c \in DOMAIN rooms : \E i \in 1..Len(rooms[c].peers) :
          /\ rooms[c].peers[i].socketId \in connected
          /\ \E s \in Sockets \ connected : SocketUser[s] = rooms[c].peers[i].userId

\* C11: after handleDisconnect for socket s has run, no peer of any room of
\* the registry is attached to s.
C11_DisconnectRemovesEveryPeer ==
    [][\A s \in Sockets :
          HandleDisconnect(s) =>
              \A c \in DOMAIN rooms' : \A i \in 1..Len(rooms'[c].peers) :
                  rooms'[c].peers[i].socketId # s]_vars

\* C12: for a peer u of room c attached to socket s, handleDisconnect for s
\* leaves room c and its cleanup timers as leaveRoom(c, u) would leave them
\* from the same state: same peers, host flags, createdBy, status and timers.
C12_DisconnectEqualsLeave ==
    [][\A s \in Sockets, c \in Codes, u \in Users :
          (/\ c \in DOMAIN rooms
           /\ \E i \in 1..Len(rooms[c].peers) :
                 rooms[c].peers[i].userId = u /\ rooms[c].peers[i].socketId = s
           /\ HandleDisconnect(s))
          => LET l == leaveRoom(rooms, timers, c, u) IN
             /\ rooms'[c] = l.rooms[c]
             /\ timers'[c] = l.timers[c]]_vars

\* C13: when the socket of the only peer of an ongoing room is lost, the room
\* becomes ended and a cleanup timer is scheduled for it.
C13_LastDisconnectEndsRoom ==
    [][\A s \in Sockets, c \in Codes :
          (/\ c \in DOMAIN rooms
           /\ rooms[c].status = "ongoing"
           /\ Len(rooms[c].peers) = 1
           /\ rooms[c].peers[1].socketId = s
           /\ HandleDisconnect(s))
          => (/\ c \in DOMAIN rooms'
              /\ rooms'[c].status = "ended"
              /\ timers'[c] = timers[c] + 1)]_vars

\* C16: leaveRoom for a code the registry does not hold, or for an identity
\* that is not a peer of the room, fails as NotFound and changes nothing;
\* leaveRoom for a peer removes that peer's entry only, keeps every other
\* entry as it was but for the host flag, and its emits end with
\* participant-left for the leaver followed by a room-list republish.
C16_LeaveRoomEffect ==
    [][\A s \in Sockets, c \in Codes, u \in Users :
          LeaveRoom(s, c, u) =>
             IF c \notin DOMAIN rooms \/ u \notin PeerIds(rooms[c])
             THEN /\ last'.result = "NotFound"
                  /\ last'.events = <<>>
                  /\ rooms' = rooms
                  /\ timers' = timers
                  /\ pending' = pending
             ELSE LET old == rooms[c].peers
                      new == rooms'[c].peers
                      i == IndexOf(old, u)
                      n == Len(last'.events)
                  IN  /\ Len(new) = Len(old) - 1
                      /\ \A j \in 1..Len(new) :
                            LET k == IF j < i THEN j ELSE j + 1 IN
                            new[j] = [old[k] EXCEPT !.isHost = new[j].isHost]
                      /\ \A d \in DOMAIN rooms \ {c} : rooms'[d] = rooms[d]
                      /\ n >= 2
                      /\ last'.events[n - 1] = ParticipantLeft("others", c, u)
                      /\ last'.events[n] = broadcastRoomList(rooms')]_vars

\* C17: createRoom fails exactly when the media engine gives no router, and
\* then the registry, the timers and the suspended handlers stay as they were
\* and nothing is emitted; whatever the record store answers, the resumed
\* createRoom returns successfully.
C17_CreateFailsOnlyOnRouter ==
    [][/\ \A s \in Sockets, routerOk \in BOOLEAN :
             CreateRoom(s, routerOk) =>
                IF routerOk
                THEN last'.result = "await"
                ELSE /\ last'.result = "Upstream"
                     /\ last'.events = <<>>
                     /\ rooms' = rooms
                     /\ timers' = timers
                     /\ pending' = pending
       /\ \A t \in Callbacks, ok \in BOOLEAN :
             (t.op = "createRoom" /\ RunCallback(t, ok)) => last'.result = "ok"]_vars

\* a createRoom has just failed while the registry holds another room
C17_Witness ==
    /\ last.op = "createRoom" /\ last.result = "Upstream"
    /\ DOMAIN rooms # {}
    /\ nextCode - 1 \notin DOMAIN rooms

C19_StatusUpdateFrame ==
    [][last'.op = "updateParticipantStatus" =>
       \A s \in Sockets, c \in MediaCodes, u \in Users, m \in Flag, v \in Flag :
          UpdateParticipantStatus(s, c, u, [isMuted |-> m, isVideoEnabled |-> v]) =>
             IF c \notin DOMAIN rooms \/ u \notin PeerIds(rooms[c])
             THEN /\ last'.result = "NotFound"
                  /\ last'.events = <<>>
                  /\ rooms' = rooms
                  /\ timers' = timers
                  /\ pending' = pending
             ELSE LET i == IndexOf(rooms[c].peers, u)
                      old == rooms[c].peers[i]
                      new == [old EXCEPT
                                !.isMuted = IF m = "undefined" THEN old.isMuted
                                            ELSE (m = "true"),
                                !.isVideoEnabled = IF v = "undefined"
                                                   THEN old.isVideoEnabled
                                                   ELSE (v = "true")]
                  IN  /\ last'.result = "ok"
                      /\ rooms' = [rooms EXCEPT ![c].peers[i] = new]
                      /\ timers' = timers
                      /\ pending' = pending]_vars

\* an update carrying isVideoEnabled alone has just been applied to a muted
\* peer of a room of two
C19_Witness ==
    /\ last.op = "updateParticipantStatus" /\ last.result = "ok"
    /\ last.events[1].data.updates.isMuted = "undefined"
    /\ last.events[1].data.updates.isVideoEnabled = "false"
    /\ \E c \in DOMAIN rooms :
          /\ Len(rooms[c].peers) = 2
          /\ \E i \in 1..2 :
                /\ rooms[c].peers[i].userId = last.events[1].data.userId
                /\ rooms[c].peers[i].isMuted
                /\ ~ rooms[c].peers[i].isVideoEnabled

\* the view of room c that the claim describes
ListedAs(v, room) ==
    /\ v.status = "ongoing"
    /\ v.participantCount = Cardinality(PeerIds(room))
    /\ IF HostCount(room) = 0
       THEN v.hostName = "Unknown"
       ELSE \E i \in 1..Len(room.peers) :
               room.peers[i].isHost /\ v.hostName = room.peers[i].userName

\* a room list holds one view for each ongoing room of the registry, no other
ListsOngoingRooms(list) ==
    /\ {v.code : v \in list} = {c \in DOMAIN rooms : rooms[c].status = "ongoing"}
    /\ Cardinality(list) = Cardinality({v.code : v \in list})
    /\ \A v \in list : ListedAs(v, rooms[v.code])

\* C20: in every state getActiveRooms, and every room-list republish of the
\* step just taken, holds exactly the ongoing rooms of the registry, each with
\* participantCount the size of its peer directory and hostName the name of
\* its host peer, "Unknown" when it has none.
C20_RoomListMatchesRegistry ==
    /\ ListsOngoingRooms(getActiveRooms(rooms))
    /\ \A k \in 1..Len(last.events) :
          last.events[k].ev = "room-list-updated"
              => ListsOngoingRooms(last.events[k].data)

\* a room list naming two rooms, one of them with two peers, was just published
C20_Witness ==
    /\ \E k \in 1..Len(last.events) :
          /\ last.events[k].ev = "room-list-updated"
          /\ Cardinality(last.events[k].data) = 2
          /\ \E v \in last.events[k].data : v.participantCount = 2

\* C21: createConsumer by a peer whose rtpCapabilities are unset is refused as
\* InvalidState, and createConsumer that router.canConsume denies is refused
\* as Unsupported, in both cases with no call of the engine and nothing
\* recorded; and no peer without rtpCapabilities holds a consumer.
C21_ConsumerNeedsCapabilities ==
    [][/\ \A s \in Sockets, c \in Codes, p \in 1..MaxProducers, t \in 1..MaxTransports,
          canConsume \in BOOLEAN :
             LET i == getPeer(rooms, c, SocketUser[s]) IN
             (i # 0 /\ CreateConsumer(s, c, p, t, canConsume)) =>
                /\ ~ rooms[c].peers[i].rtpCapabilities =>
                      /\ last'.result = "InvalidState"
                      /\ rooms' = rooms /\ engine' = engine /\ pending' = pending
                /\ (/\ rooms[c].peers[i].rtpCapabilities
                    /\ t \in rooms[c].peers[i].transports
                    /\ p \in RoomProducers(rooms[c])
                    /\ ~ canConsume) =>
                      /\ last'.result = "Unsupported"
                      /\ rooms' = rooms /\ engine' = engine /\ pending' = pending
       /\ \A c \in DOMAIN rooms' : \A i \in 1..Len(rooms'[c].peers) :
             rooms'[c].peers[i].consumers # {} => rooms'[c].peers[i].rtpCapabilities]_vars

\* a createConsumer was just refused for want of capabilities, asked by a peer
\* that has a transport in a room that has a producer
C21_Witness ==
    /\ last.op = "createConsumer" /\ last.result = "InvalidState"
    /\ \E c \in DOMAIN rooms :
          /\ RoomProducers(rooms[c]) # {}
          /\ \A i \in 1..Len(rooms[c].peers) : ~ rooms[c].peers[i].rtpCapabilities
          /\ \E i \in 1..Len(rooms[c].peers) : rooms[c].peers[i].transports # {}


\* the connections a `socket.to(code)` emit from socket s reaches
DeliveredTo(code, s) == subs[code] \ {s}

\* C22: when a peer's produce request succeeds, the producer is recorded under
\* that peer in the room's directory and the new-producer notification, which
\* names the producer and its owner, reaches the connection of every other
\* member of the room and not the producing connection.
C22_ProduceRecordsAndNotifies ==
    [][\A t \in Callbacks :
          (t.op = "produce" /\ RunCallback(t, TRUE)) =>
             LET i == getPeer(rooms', t.code, t.user) IN
             /\ i # 0
             /\ t.id \in rooms'[t.code].peers[i].producers
             /\ last'.events = <<Ev("new-producer", "others", t.code,
                                    [producerId |-> t.id, peerId |-> t.user])>>
             /\ t.sock \notin DeliveredTo(t.code, t.sock)
             /\ \A j \in 1..Len(rooms'[t.code].peers) :
                   j # i => rooms'[t.code].peers[j].socketId \in DeliveredTo(t.code, t.sock)]_vars


\* the current-media list of the reply to the join just served
ReplyProducers == last.events[Len(last.events)].data.producers

\* C23: the reply to a successful join lists exactly the producers recorded
\* at that moment across the peers of the joined room, each under the peer that
\* owns it, and lists nothing when no peer of the room has produced.
C23_JoinReplyListsRoomProducers ==
    (last.op = "joinRoom" /\ last.result = "ok") =>
        LET c == last.events[1].code
            room == rooms[c]
        IN  /\ last.events[Len(last.events)].ev = "callback"
            /\ {x.producerId : x \in ReplyProducers} = RoomProducers(room)
            /\ \A x \in ReplyProducers :
                  \E i \in 1..Len(room.peers) :
                      /\ room.peers[i].userId = x.peerId
                      /\ room.peers[i].socketId = x.socketId
                      /\ x.producerId \in room.peers[i].producers
            /\ RoomProducers(room) = {} => ReplyProducers = {}

\* a joiner was just told of a producer that another peer of the room owns
C23_Witness ==
    /\ last.op = "joinRoom" /\ last.result = "ok"
    /\ \E x \in ReplyProducers : x.peerId # last.events[1].data.userId


\* the ids of the producers, and of the consumers, a registry records
RecordedProducers(rms) ==
    UNION {RoomProducers(rms[c]) : c \in DOMAIN rms}
RecordedConsumers(rms) ==
    UNION {{k.id : k \in rms[c].peers[i].consumers} :
              <<c, i>> \in {x \in (DOMAIN rms) \X (1..MaxJoins) : x[2] <= Len(rms[x[1]].peers)}}

\* C24: when the engine reports a producer closed (its own close or its
\* transport's), the producer is recorded under no peer afterwards, the
\* producer snapshot a join would get does not hold it, no suspended call can
\* record it again, and one producer-closed notification naming it goes to the
\* room; when a consumer's transport or producer closes, the consumer is
\* recorded under no peer afterwards. Every recorded producer and consumer is
\* one the engine still holds open.
C24_CloseEventsRemoveHandles ==
    [][/\ \A h \in handles :
             /\ ProducerClose(h) =>
                   /\ h.id \notin RecordedProducers(rooms')
                   /\ \A c \in DOMAIN rooms' :
                         h.id \notin {x.producerId : x \in JoinReply(rooms'[c])}
                   /\ \A t \in pending' : t.op = "produce" => t.id # h.id
                   /\ h.id <= engine'.producers
                   /\ last'.events = <<ProducerClosedEv(h.code, h.id)>>
             /\ (ConsumerTransportClose(h) \/ ConsumerProducerClose(h)) =>
                   /\ h.id \notin RecordedConsumers(rooms')
                   /\ \A t \in pending' : t.op = "createConsumer" => t.id # h.id
       /\ RecordedProducers(rooms') \subseteq {h.id : h \in {g \in handles' : g.type = "produce"}}
       /\ RecordedConsumers(rooms') \subseteq
              {h.id : h \in {g \in handles' : g.type = "createConsumer"}}]_vars

\* a producer has just been closed while the peer it was recorded under is
\* still in the room
C24_Witness ==
    /\ last.op = "producerClose"
    /\ engine.producers >= 1
    /\ \E c \in DOMAIN rooms :
          /\ \E i \in 1..Len(rooms[c].peers) : rooms[c].peers[i].transports # {}
          /\ RoomProducers(rooms[c]) = {}


\* the step replied with the error `result`, called no engine operation and
\* left every peer and every handle as it was
Rejected(result) ==
    /\ last'.result = result /\ last'.events = <<>>
    /\ rooms' = rooms /\ handles' = handles
    /\ engine' = engine /\ pending' = pending

\* the names the media handlers reply under
MediaOps ==
    {"createTransport", "connectTransport", "produce", "createConsumer", "resumeConsumer"}

\* C25: createTransport, connectTransport, produce, createConsumer and
\* resumeConsumer reply with an error, call no engine operation and change no
\* peer's handles when the room is absent or the requester is not a peer of
\* it, when the named transport is not one of the requester's own, when the
\* named producer is recorded for no peer of the room, or when the named
\* consumer is not one of the requester's own.
C25_MediaLookupsReject ==
    [][last'.op \in MediaOps =>
       \A s \in Sockets, c \in MediaCodes :
          LET i == getPeer(rooms, c, SocketUser[s]) IN
          /\ (last'.op = "createTransport" /\ i = 0 /\ CreateTransport(s, c))
                 => Rejected("NotFound")
          /\ \A t \in 1..MaxTransports :
                LET foreign == i = 0 \/ t \notin rooms[c].peers[i].transports IN
                /\ \A ok \in BOOLEAN :
                      (last'.op = "connectTransport" /\ foreign
                           /\ ConnectTransport(s, c, t, ok)) => Rejected("NotFound")
                /\ (last'.op = "produce" /\ foreign /\ Produce(s, c, t))
                       => Rejected("NotFound")
                /\ \A p \in 1..MaxProducers, canConsume \in BOOLEAN :
                      (/\ last'.op = "createConsumer"
                       /\ foreign \/ p \notin RoomProducers(rooms[c])
                       /\ CreateConsumer(s, c, p, t, canConsume)) =>
                         IF i # 0 /\ ~ rooms[c].peers[i].rtpCapabilities
                         THEN Rejected("InvalidState")
                         ELSE Rejected("NotFound")
          /\ \A k \in 1..MaxConsumers, ok \in BOOLEAN :
                (/\ last'.op = "resumeConsumer"
                 /\ i = 0 \/ k \notin {x.id : x \in rooms[c].peers[i].consumers}
                 /\ ResumeConsumer(s, c, k, ok)) => Rejected("NotFound")]_vars

\* a produce was just refused in a room of two peers where one peer holds a
\* transport: the requester is a peer and the transport is not its own
C25_Witness ==
    /\ last.op = "produce" /\ last.result = "NotFound"
    /\ \E c \in DOMAIN rooms :
          /\ PeerIds(rooms[c]) = Users
          /\ \E i \in 1..Len(rooms[c].peers) : rooms[c].peers[i].transports # {}


\* the step reported a failure to its caller
Failed == last'.result \notin {"ok", "await"}

\* C26: a joinRoom, leaveRoom, endRoom or updateParticipantStatus that reports
\* a failure to its caller leaves the registry, every peer directory and the
\* cleanup timers exactly as they were before the call.
C26_FailedOperationChangesNothing ==
    [][\A s \in Sockets, c \in Codes, u \in Users :
          /\ (\E clock \in 0..MaxClock : JoinRoom(s, c, u, clock) /\ Failed)
                => (rooms' = rooms /\ timers' = timers)
          /\ (LeaveRoom(s, c, u) /\ Failed) => (rooms' = rooms /\ timers' = timers)
          /\ (EndRoom(s, c, u) /\ Failed) => (rooms' = rooms /\ timers' = timers)
          /\ (\E m \in Flag, v \in Flag :
                 UpdateParticipantStatus(s, c, u, [isMuted |-> m, isVideoEnabled |-> v])
                 /\ Failed)
                => (rooms' = rooms /\ timers' = timers)]_vars


\* the PeerState object oid is an entry of the directory of room code
InDirectory(rms, code, oid) ==
    /\ code \in DOMAIN rms
    /\ \E i \in 1..Len(rms[code].peers) : rms[code].peers[i].oid = oid

\* C27: when the engine call of a suspended createTransport, produce or
\* createConsumer returns after the peer left or disconnected, the handler
\* notices that the PeerState it looked up is no longer in the room's
\* directory: it reports a failure, registers no handle and emits no
\* new-producer notification for that peer.
C27_RevalidatesAfterAwait ==
    [][\A t \in Callbacks :
          (/\ t.op \in {"createTransport", "produce", "createConsumer"}
           /\ ~ InDirectory(rooms, t.code, t.oid)
           /\ RunCallback(t, TRUE)) =>
              /\ last'.result # "ok"
              /\ last'.events = <<>>
              /\ handles' = handles]_vars


\* the room lists published by a step, in the order of their emits
RoomLists(step) ==
    SelectSeq(step.events, LAMBDA e : e.ev = "room-list-updated")

\* C29: at every point where no operation is in progress the latest room-list
\* broadcast agrees with the registry (the ongoing rooms, each with the size
\* of its peer directory). Hence a step from one such point to the next that
\* changes the ongoing rooms or the size of a directory publishes a room
\* list, and the last list it publishes is the one the registry then gives.
C29_LatestRoomListIsCurrent ==
    [][(/\ pending = {} /\ pending' = {}
        /\ getActiveRooms(rooms') # getActiveRooms(rooms)) =>
           /\ RoomLists(last') # <<>>
           /\ RoomLists(last')[Len(RoomLists(last'))].data = getActiveRooms(rooms')]_vars


\* the rooms in which handleDisconnect finds a peer attached to socket s
MatchedRooms(s) == {c \in DOMAIN rooms : findParticipantBySocket(rooms[c], s) # 0}

\* C30: one handleDisconnect emits no room list when the lost connection
\* matched no peer; when it matched a peer in one or more rooms it emits
\* exactly one, as its last emit, after a participant-left for each of those
\* rooms, and the list is the one the registry gives once every one of those
\* rooms has lost its peer.
C30_OneRoomListPerDisconnect ==
    [][\A s \in Sockets :
          HandleDisconnect(s) =>
             LET n == Len(last'.events) IN
             IF MatchedRooms(s) = {}
             THEN last'.events = <<>>
             ELSE /\ Len(RoomLists(last')) = 1
                  /\ n = Cardinality(MatchedRooms(s)) + 1
                  /\ last'.events[n] = broadcastRoomList(rooms')
                  /\ \A c \in MatchedRooms(s) :
                        /\ Len(rooms'[c].peers) = Len(rooms[c].peers) - 1
                        /\ \E k \in 1..(n - 1) :
                              /\ last'.events[k].ev = "participant-left"
                              /\ last'.events[k].code = c]_vars

\* a connection attached to a peer in each of two rooms was just lost: two
\* participant-left notifications, then one room list
C30_Witness ==
    /\ last.op = "disconnect"
    /\ Len(last.events) = 3
    /\ last.events[1].ev = "participant-left"
    /\ last.events[2].ev = "participant-left"
    /\ last.events[1].code # last.events[2].code
    /\ last.events[3].ev = "room-list-updated"


\* C31: a joinRoom by an identity already in the room leaves that peer's
\* isHost flag and joinedAt as they were; when the identity is the room's
\* host, it is flagged host afterwards and an endRoom it asks for is allowed.
C31_RejoinKeepsHostAndJoinedAt ==
    [][\A s \in Sockets, c \in Codes, u \in Users, k \in 0..MaxClock :
          (/\ c \in DOMAIN rooms
           /\ rooms[c].status = "ongoing"
           /\ u \in PeerIds(rooms[c])
           /\ JoinRoom(s, c, u, k))
          => LET i == IndexOf(rooms[c].peers, u)
                 j == IndexOf(rooms'[c].peers, u)
             IN  /\ j # 0
                 /\ rooms'[c].peers[j].isHost = rooms[c].peers[i].isHost
                 /\ rooms'[c].peers[j].joinedAt = rooms[c].peers[i].joinedAt
                 /\ CurrentHost(rooms[c]) = u =>
                       /\ CurrentHost(rooms'[c]) = u
                       /\ HasHostFlag(rooms'[c], u)
                       /\ validateHostPermission(rooms'[c], u)]_vars


\* identity u is a peer of room c in the registry rms
IsPeer(rms, c, u) == c \in DOMAIN rms /\ u \in PeerIds(rms[c])

\* C32: the loss of a connection other than the one a peer's entry carries
\* (the connection the identity used before it re-joined among them) leaves
\* the entry in the room as it is, attached to the connection it carries; an
\* entry goes away only by the loss of the connection it carries or by a
\* leave request naming its identity.
C32_LossOfOldConnectionKeepsPeer ==
    [][\A c \in Codes, u \in Users :
          IsPeer(rooms, c, u) =>
             LET p == rooms[c].peers[IndexOf(rooms[c].peers, u)] IN
             /\ \A s \in Sockets :
                   (last'.op = "disconnect" /\ s # p.socketId /\ HandleDisconnect(s)) =>
                      /\ IsPeer(rooms', c, u)
                      /\ rooms'[c].peers[IndexOf(rooms'[c].peers, u)] = p
             /\ ~ IsPeer(rooms', c, u) =>
                   \/ HandleDisconnect(p.socketId)
                   \/ \E s \in Sockets : LeaveRoom(s, c, u)]_vars

\* u1's own connection s1 has just been lost and nothing was removed: the one
\* peer ever admitted is u1, it re-joined after its first join and its entry
\* carries the other connection
C32_Witness ==
    /\ last.op = "disconnect" /\ last.events = <<>>
    /\ "s1" \notin connected /\ "s2" \in connected
    /\ joins = 1
    /\ \E c \in DOMAIN rooms :
          /\ Len(rooms[c].peers) = 1
          /\ rooms[c].peers[1].userId = SocketUser["s1"]
          /\ rooms[c].peers[1].socketId = "s2"
          /\ rooms[c].peers[1].joinedAt < now


\* the connections the entries of a peer directory carry
PeerSockets(room) == {room.peers[i].socketId : i \in 1..Len(room.peers)}

\* C33: in every state, the connections subscribed to a room's room-scoped
\* broadcasts are exactly the connections the entries of the room's peer
\* directory carry.
C33_SubscribersArePeerConnections ==
    \A c \in DOMAIN rooms : subs[c] = PeerSockets(rooms[c])


\* C34: an entry leaves a peer directory only in a leaveRoom that arrives over
\* the connection the entry carries or in the loss of that connection; a
\* leaveRoom that names the identity and arrives over another connection
\* leaves the entry where it is.
C34_OnlyOwnConnectionRemovesPeer ==
    [][\A c \in Codes, u \in Users :
          IsPeer(rooms, c, u) =>
             LET p == rooms[c].peers[IndexOf(rooms[c].peers, u)] IN
             /\ ~ IsPeer(rooms', c, u) =>
                   \/ HandleDisconnect(p.socketId)
                   \/ LeaveRoom(p.socketId, c, u)
             /\ \A s \in Sockets :
                   (last'.op = "leaveRoom" /\ s # p.socketId /\ LeaveRoom(s, c, u))
                      => IsPeer(rooms', c, u)]_vars


\* C35: in every state, every consumer recorded under a peer of a room reads
\* a producer that is recorded under some peer of the same room.
C35_ConsumersReadRecordedProducers ==
    \A c \in DOMAIN rooms : \A i \in 1..Len(rooms[c].peers) :
        \A k \in rooms[c].peers[i].consumers : k.producerId \in RoomProducers(rooms[c])


\* the producer-closed notifications a step emits
ProducerClosedEmits(step) ==
    SelectSeq(step.events, LAMBDA e : e.ev = "producer-closed")

\* C38: producer-closed is emitted once for a closed producer, however many
\* consumers read it: a step emits it, once, only for a producer the engine
\* held open before the step and closes in it, so no later step emits it for
\* that producer again.
C38_ProducerClosedOnce ==
    [][/\ Len(ProducerClosedEmits(last')) <= 1
       /\ \A k \in 1..Len(ProducerClosedEmits(last')) :
             \E h \in handles :
                /\ h.type = "produce"
                /\ h.id = ProducerClosedEmits(last')[k].data
                /\ h \notin handles']_vars

\* room, status and media handlers together, for MaxRooms rooms: every client
\* sends its own user id, the status and media requests come from the first
\* connection, and the awaited calls succeed
NextRooms ==
    \/ \E s \in Sockets : CreateRoom(s, TRUE)
    \/ \E s \in Sockets, c \in Codes : JoinRoom(s, c, SocketUser[s], now)
    \/ \E s \in Sockets, c \in Codes, u \in Users : LeaveRoom(s, c, u)
    \/ \E s \in Sockets, c \in Codes : EndRoom(s, c, SocketUser[s])
    \/ \E s \in Sockets : HandleDisconnect(s)
    \/ \E t \in Callbacks : RunCallback(t, TRUE)
    \/ \E c \in Codes :
           UpdateParticipantStatus("s1", c, SocketUser["s1"],
                                   [isMuted |-> "true", isVideoEnabled |-> "undefined"])
    \/ \E c \in Codes : CreateTransport("s1", c)
    \/ \E c \in Codes, t \in 1..MaxTransports : Produce("s1", c, t)

SpecRooms == Init /\ [][NextRooms]_vars

\* what the claim reads of room c: its status, its creator and its peer
\* directory, or nothing when the registry has no room c
RoomView(rms, c) ==
    IF c \in DOMAIN rms
    THEN <<rms[c].status, rms[c].createdBy, rms[c].peers>>
    ELSE <<>>

\* the rooms a step changes
ChangedRooms == {c \in Codes : RoomView(rooms', c) # RoomView(rooms, c)}

====
